---- MODULE Spec2Model ----
(***************************************************************************)
(* KPong (src/main.rs): the round state machine, the paddle and ball       *)
(* integration, the wall/paddle collisions and the scoring of the Bevy     *)
(* application, one frame of the Main schedule at a time.                  *)
(*                                                                         *)
(* Numbers.  Positions are whole pixels and velocities whole pixels per    *)
(* second, as the f32 literals of the source; time is counted in ticks of  *)
(* 1/TicksPerSecond s, so every product of the source before a paddle      *)
(* deflection (speed * dir * dt) is exact, as it is in f32 for these       *)
(* values.  The deflection rotates by an irrational sine and cosine: they  *)
(* are fixed-point (TrigScale) and the results are rounded to the grid,    *)
(* where f32 rounds to 24 bits.                                            *)
(*                                                                         *)
(* A frame is: the time and keyboard update (NewFrame), the                *)
(* StateTransition schedule (apply_state_transition with one OnEnter       *)
(* handler), then the systems of Update, which main registers as a tuple   *)
(* without .chain(): each runs once per frame, in an order the executor    *)
(* is free to choose.                                                      *)
(*                                                                         *)
(* Spec follows every run with the frame times of DtSet.  SpecCounted      *)
(* follows the first MaxFrames frames of the runs with the frame times of  *)
(* CountedDtSet, and SpecFair the runs whose frames all take positive      *)
(* time, under the fairness of a loop that keeps running frames.           *)
(***************************************************************************)
EXTENDS Integers, Sequences, FiniteSets, TLC

VARIABLES
    gameState,   \* State<GameState>
    nextState,   \* NextState<GameState>: "None" or the requested state
    score,       \* Score {player, enemy}
    timer,       \* NextRoundTimer: [elapsed, finished], elapsed in ticks
    player,      \* the Player paddle: [dir, y] (x is PlayerX)
    enemy,       \* the Enemy paddle: [dir, y] (x is EnemyX)
    ball,        \* Ball.vel and the ball's Transform: [x, y, vx, vy]
    dt,          \* Time::delta of this frame, in ticks
    keys,        \* ButtonInput<KeyCode>: the pressed keys among {"W", "S"}
    pc,          \* where the frame is: "init" (no frame yet), "enter" (the
                 \* first frame's OnEnter), "transition", "update"
    pending,     \* the systems of Update that have not run yet this frame
    mb,          \* what move_ball did this frame (its intermediate values,
                 \* the paddles it hit and the offset ball y - paddle y)
    sinceEntry,  \* sum of the dt of the round_over runs since RoundOver was entered
    roundsOver,  \* how many times RoundOver has been entered
    frames       \* how many frames of a counted run have begun

vars == <<gameState, nextState, score, timer, player, enemy, ball,
          dt, keys, pc, pending, mb, sinceEntry, roundsOver, frames>>

----------------------------------------------------------------------------
(* Bounds of the model *)

\* the game is followed for MaxRounds points
MaxRounds == 1

\* the frame times tried, in ticks: a zero frame, and a long one that
\* takes the served ball from the centre to x = -248, between the face of
\* the player paddle (-244) and the goal line (-252)
DtSet == {0, 31}

\* the frame times of the runs in which time never stands still
PositiveDtSet == {31}

\* the counted runs are followed for MaxFrames frames
MaxFrames == 7

\* the frame times of the counted runs: a long frame, and a short one in
\* which a paddle moves by PADDLE_HALF_Y + BALL_HALF = 36
CountedDtSet == {9, 31}

\* the keyboard states of the counted runs: W held, or nothing
CountedKeySets == {{}, {"W"}}

\* a horizontal velocity below this many px/s is within the rounding of
\* the model's velocities and is not told from zero
VelTolerance == 10

\* the keyboard states tried
KeySets == SUBSET {"W", "S"}

----------------------------------------------------------------------------
(* Constants of the source *)

TicksPerSecond == 32

WINDOW_SIZE == 512
PADDLE_HALF_X == 4
PADDLE_HALF_Y == 32
BALL_HALF == 4
BALL_SPEED == 256
PADDLE_SPEED == 128
NEXT_ROUND_INTERVAL == 1

\* COLLISION_MAX_ANGLE = PI/4; percent_vertical = offset / PADDLE_HALF_Y, so
\* an offset of k pixels rotates by k * PI/128.
TrigScale == 16384

\* round(TrigScale * cos(k * PI/128)), k = 0 .. 36
CosTab == <<16384, 16379, 16364, 16340, 16305, 16261, 16207, 16143, 16069,
            15986, 15893, 15791, 15679, 15557, 15426, 15286, 15137, 14978,
            14811, 14635, 14449, 14256, 14053, 13842, 13623, 13395, 13160,
            12916, 12665, 12406, 12140, 11866, 11585, 11297, 11003, 10702,
            10394>>

\* round(TrigScale * sin(k * PI/128)), k = 0 .. 36
SinTab == <<0, 402, 804, 1205, 1606, 2006, 2404, 2801, 3196, 3590, 3981,
            4370, 4756, 5139, 5520, 5897, 6270, 6639, 7005, 7366, 7723,
            8076, 8423, 8765, 9102, 9434, 9760, 10080, 10394, 10702, 11003,
            11297, 11585, 11866, 12140, 12406, 12665>>

HalfCourt == WINDOW_SIZE \div 2

\* startup: Transform::from_xyz(-WINDOW_SIZE.0/2 + PADDLE_SHAPE.half_size.x, 0, 0)
PlayerX == -HalfCourt + PADDLE_HALF_X
EnemyX == HalfCourt - PADDLE_HALF_X

\* move_paddle's clamp bounds
MaxPaddleY == HalfCourt - PADDLE_HALF_Y

\* move_ball: const MAX_BALL_Y
MAX_BALL_Y == HalfCourt - BALL_HALF

\* Timer::from_seconds(NEXT_ROUND_INTERVAL, Once): the duration in ticks
TimerDuration == NEXT_ROUND_INTERVAL * TicksPerSecond

----------------------------------------------------------------------------
(* Arithmetic *)

Abs(a) == IF a < 0 THEN -a ELSE a

Sgn(a) == IF a < 0 THEN -1 ELSE IF a > 0 THEN 1 ELSE 0

\* a / b rounded to the nearest integer, halves away from zero (b > 0)
RoundDiv(a, b) == Sgn(a) * ((2 * Abs(a) + b) \div (2 * b))

\* clamp with the upper bound forgotten
clamp_NoMax(v, min, max) == IF v < min THEN min ELSE v

\* fn clamp<T>(v, min, max)
clamp(v, min, max) == IF v < min THEN min ELSE IF v > max THEN max ELSE v

\* f32::signum: 1.0 for a positive number and for +0.0, -1.0 for a negative
\* one.  The difference of two equal finite values is +0.0, and no -0.0
\* position arises (every position starts at +0.0 and x + y is -0.0 only
\* when both are), so a zero difference has signum 1.0.
signum(d) == IF d >= 0 THEN 1 ELSE -1

\* v * time.delta_seconds() for a velocity in px/s and d ticks
Displacement(v, d) == RoundDiv(v * d, TicksPerSecond)

Cos(k) == CosTab[Abs(k) + 1]
Sin(k) == Sgn(k) * SinTab[Abs(k) + 1]

\* Vec2::from_angle(COLLISION_MAX_ANGLE * percent_vertical).rotate(vel),
\* percent_vertical = k / PADDLE_HALF_Y
Rotate(k, vx, vy) ==
    [vx |-> RoundDiv(Cos(k) * vx - Sin(k) * vy, TrigScale),
     vy |-> RoundDiv(Sin(k) * vx + Cos(k) * vy, TrigScale)]

----------------------------------------------------------------------------
(* The values of the state *)

States == {"Serving", "Started", "RoundOver", "GameOver"}

\* the systems main adds to Update.  update_ui, the seventh, only copies the
\* score into the two Text sections, which no system reads: it is left out.
UpdateSystems == {"player_input", "move_paddle", "pre_serve", "enemy_ai",
                  "move_ball", "round_over"}

\* Ball::default() and Transform::default()
BallDefault == [x |-> 0, y |-> 0, vx |-> 0, vy |-> 0]

\* Paddle::default() and the y of Transform::from_xyz(.., 0, 0)
PaddleDefault == [dir |-> 0, y |-> 0]

\* Timer::reset, and the timer Timer::from_seconds builds
TimerReset == [elapsed |-> 0, finished |-> FALSE]

\* no run of move_ball in this frame yet
NoMove == [ran |-> FALSE, pre |-> BallDefault, integ |-> BallDefault,
           wall |-> BallDefault, hit |-> {}, off |-> 0, goal |-> "none"]

\* run conditions with move_ball left unconditional
RunSet_BallAlways(s) ==
    {"player_input", "move_paddle", "move_ball"}
        \cup (IF s = "Serving" THEN {"pre_serve"} ELSE {})
        \cup (IF s = "Started" THEN {"enemy_ai"} ELSE {})
        \cup (IF s = "RoundOver" THEN {"round_over"} ELSE {})

\* the run conditions of main: which systems of Update run in a state
RunSet(s) ==
    {"player_input", "move_paddle"}
        \cup (IF s = "Serving" THEN {"pre_serve"} ELSE {})
        \cup (IF s = "Started" THEN {"enemy_ai", "move_ball"} ELSE {})
        \cup (IF s = "RoundOver" THEN {"round_over"} ELSE {})

FrameDone == pc = "update" /\ pending = {}

\* the state after App::new()..., Startup included: the three entities
\* spawned, the resources at their defaults, no frame run yet
Init ==
    /\ gameState = "Serving"
    /\ nextState = "None"
    /\ score = [player |-> 0, enemy |-> 0]
    /\ timer = TimerReset
    /\ player = PaddleDefault
    /\ enemy = PaddleDefault
    /\ ball = BallDefault
    /\ dt = 0
    /\ keys = {}
    /\ pc = "init"
    /\ pending = {}
    /\ mb = NoMove
    /\ sinceEntry = 0
    /\ roundsOver = 0
    /\ frames = 0

----------------------------------------------------------------------------
(* The start of a frame *)

\* First and PreUpdate: Time is advanced by the frame's delta and the
\* keyboard state is refreshed.  The first frame runs OnEnter of the
\* initial state (run_enter_schedule) before apply_state_transition.
BeginFrame(d, k) ==
    /\ pc = "init" \/ FrameDone
    /\ ~(gameState = "Serving" /\ score.player + score.enemy >= MaxRounds)
    /\ dt' = d
    /\ keys' = k
    /\ pc' = IF pc = "init" THEN "enter" ELSE "transition"
    /\ mb' = NoMove
    /\ UNCHANGED <<gameState, nextState, score, timer, player, enemy, ball,
                    pending, sinceEntry, roundsOver>>

\* a frame of a run that is followed for as long as it lasts
NewFrame(d, k) ==
    /\ BeginFrame(d, k)
    /\ UNCHANGED frames

\* a frame of a run that is followed for its first MaxFrames frames
CountedFrame(d, k) ==
    /\ frames < MaxFrames
    /\ BeginFrame(d, k)
    /\ frames' = frames + 1

\* the states main registers an OnEnter system for
Handled == {"Serving", "Started", "RoundOver"}

\* apply_state_transition when no system of this program runs: NextState is
\* empty, or names the state that is already active (it is taken and
\* nothing else happens), or names a state without an OnEnter system (it
\* becomes the active state)
apply_state_transition ==
    /\ pc = "transition"
    /\ nextState = "None" \/ nextState = gameState \/ nextState \notin Handled
    /\ gameState' = IF nextState = "None" THEN gameState ELSE nextState
    /\ nextState' = "None"
    /\ pc' = "update"
    /\ pending' = RunSet(gameState')
    /\ UNCHANGED <<score, timer, player, enemy, ball, dt, keys, mb, sinceEntry, roundsOver, frames>>

\* the part of apply_state_transition common to the three OnEnter handlers
Enter(s) ==
    /\ \/ pc = "enter" /\ s = gameState
       \/ pc = "transition" /\ nextState = s /\ gameState # s
    /\ gameState' = s
    /\ nextState' = "None"
    /\ pc' = "update"
    /\ pending' = RunSet(s)

\* a reset that zeroes the direction and leaves the paddle where it is
ResetPaddle_DirOnly(p) == [p EXCEPT !.dir = 0]

\* on_start_serving, for one paddle: paddle.dir = 0; trans.translation.y = 0
ResetPaddle(p) == [p EXCEPT !.dir = 0, !.y = 0]

\* fn on_start_serving, OnEnter(GameState::Serving)
on_start_serving ==
    /\ Enter("Serving")
    /\ ball' = BallDefault
    /\ player' = ResetPaddle(player)
    /\ enemy' = ResetPaddle(enemy)
    /\ UNCHANGED <<score, timer, dt, keys, mb, sinceEntry, roundsOver, frames>>

\* a launch with the sign of the speed dropped
Launch_Rightward(b) == [b EXCEPT !.vx = BALL_SPEED, !.vy = 0]

\* on_round_started: ball.vel = Vec2::new(-BALL_SPEED, 0)
Launch(b) == [b EXCEPT !.vx = -BALL_SPEED, !.vy = 0]

\* fn on_round_started, OnEnter(GameState::Started)
on_round_started ==
    /\ Enter("Started")
    /\ ball' = Launch(ball)
    /\ UNCHANGED <<score, timer, player, enemy, dt, keys, mb, sinceEntry, roundsOver, frames>>

\* an entry into RoundOver that leaves the enemy paddle its direction
StopPaddle_Forgotten(p) == p

\* on_round_over, for the enemy paddle: paddle.dir = 0
StopPaddle(p) == [p EXCEPT !.dir = 0]

\* fn on_round_over, OnEnter(GameState::RoundOver)
on_round_over ==
    /\ Enter("RoundOver")
    /\ enemy' = StopPaddle(enemy)
    /\ timer' = TimerReset
    /\ sinceEntry' = 0
    /\ roundsOver' = roundsOver + 1
    /\ UNCHANGED <<score, player, ball, dt, keys, mb, frames>>

----------------------------------------------------------------------------
(* The systems of Update *)

\* a system of Update takes its turn
Run(sys) ==
    /\ pc = "update"
    /\ sys \in pending
    /\ pending' = pending \ {sys}
    /\ UNCHANGED <<gameState, dt, keys, pc>>

\* player_input: move_dir, S before W
MoveDir(k) == IF "S" \in k THEN -1 ELSE IF "W" \in k THEN 1 ELSE 0

\* fn player_input
player_input ==
    /\ Run("player_input")
    /\ player' = [player EXCEPT !.dir = MoveDir(keys)]
    /\ UNCHANGED <<nextState, score, timer, enemy, ball, mb, sinceEntry, roundsOver, frames>>

\* fn move_paddle, for one paddle
MovePaddle(p, d) ==
    [p EXCEPT !.y = clamp(p.y + Displacement(PADDLE_SPEED * p.dir, d),
                          -MaxPaddleY, MaxPaddleY)]

\* fn move_paddle
move_paddle ==
    /\ Run("move_paddle")
    /\ player' = MovePaddle(player, dt)
    /\ enemy' = MovePaddle(enemy, dt)
    /\ UNCHANGED <<nextState, score, timer, ball, mb, sinceEntry, roundsOver, frames>>

\* a serve test that looks at W alone
ServeRequested_WOnly(k) == "W" \in k

\* pre_serve: pressed(KeyW) || pressed(KeyS)
ServeRequested(k) == "W" \in k \/ "S" \in k

\* fn pre_serve
pre_serve ==
    /\ Run("pre_serve")
    /\ nextState' = IF ServeRequested(keys) THEN "Started" ELSE nextState
    /\ UNCHANGED <<score, timer, player, enemy, ball, mb, sinceEntry, roundsOver, frames>>

\* enemy_ai: (ball y - paddle y).signum() as i32
AiDir(by, py) == signum(by - py)

\* fn enemy_ai
enemy_ai ==
    /\ Run("enemy_ai")
    /\ enemy' = [enemy EXCEPT !.dir = AiDir(ball.y, enemy.y)]
    /\ UNCHANGED <<nextState, score, timer, player, ball, mb, sinceEntry, roundsOver, frames>>

\* a tick that compares the frame's delta, not the accumulated time, with
\* the duration
TimerTick_DeltaOnly(t, d) ==
    IF t.finished THEN t
    ELSE IF d >= TimerDuration
         THEN [elapsed |-> TimerDuration, finished |-> TRUE]
         ELSE [elapsed |-> t.elapsed + d, finished |-> FALSE]

\* Timer::tick of a TimerMode::Once timer
TimerTick(t, d) ==
    IF t.finished THEN t
    ELSE IF t.elapsed + d >= TimerDuration
         THEN [elapsed |-> TimerDuration, finished |-> TRUE]
         ELSE [elapsed |-> t.elapsed + d, finished |-> FALSE]

\* a round_over that asks for the state after the last one
AfterRoundOver_GameOver(t, n) == IF t.finished THEN "GameOver" ELSE n

\* round_over: if timer.0.finished() { next_state.set(GameState::Serving) }
AfterRoundOver(t, n) == IF t.finished THEN "Serving" ELSE n

\* fn round_over
round_over ==
    /\ Run("round_over")
    /\ timer' = TimerTick(timer, dt)
    /\ nextState' = AfterRoundOver(timer', nextState)
    /\ sinceEntry' = sinceEntry + dt
    /\ UNCHANGED <<score, player, enemy, ball, mb, roundsOver, frames>>

----------------------------------------------------------------------------
(* move_ball *)

\* transform.translation += ball.vel * time.delta_seconds()
Integrate(b, d) ==
    [b EXCEPT !.x = b.x + Displacement(b.vx, d),
              !.y = b.y + Displacement(b.vy, d)]

\* a wall bounce that inverts the velocity and forgets the clamp
WallBounce_NoClamp(b) ==
    IF b.y > MAX_BALL_Y \/ b.y < -MAX_BALL_Y
    THEN [b EXCEPT !.vy = -b.vy]
    ELSE b

\* a wall bounce whose test includes the boundary itself
WallBounce_Inclusive(b) ==
    IF b.y >= MAX_BALL_Y \/ b.y <= -MAX_BALL_Y
    THEN [b EXCEPT !.vy = -b.vy, !.y = clamp(b.y, -MAX_BALL_Y, MAX_BALL_Y)]
    ELSE b

\* the wall bounce: lines 286-289
WallBounce(b) ==
    IF b.y > MAX_BALL_Y \/ b.y < -MAX_BALL_Y
    THEN [b EXCEPT !.vy = -b.vy, !.y = clamp(b.y, -MAX_BALL_Y, MAX_BALL_Y)]
    ELSE b

\* one paddle of the loop: is a collision registered with the paddle whose
\* centre is (cx, cy)
PaddleHit(prev_x, b, cx, cy) ==
    LET top_wall_y == cy + PADDLE_HALF_Y + BALL_HALF
        bottom_wall_y == cy - PADDLE_HALF_Y - BALL_HALF
        left_wall_x == cx - PADDLE_HALF_X - BALL_HALF
        right_wall_x == cx + PADDLE_HALF_X + BALL_HALF
        right_collision == prev_x > right_wall_x /\ b.x < right_wall_x
        left_collision == prev_x < left_wall_x /\ b.x > left_wall_x
    IN  /\ ~(b.y > top_wall_y \/ b.y < bottom_wall_y)
        /\ right_collision \/ left_collision

\* a deflection that rotates and forgets to invert x
Deflect_NoInvert(b, cy) ==
    LET r == Rotate(b.y - cy, b.vx, b.vy)
    IN  [b EXCEPT !.vx = r.vx, !.vy = r.vy]

\* the velocity after a registered collision: x inverted, then rotated by
\* COLLISION_MAX_ANGLE * (pos.y - center.y) / PADDLE_SHAPE.half_size.y
Deflect(b, cy) ==
    LET r == Rotate(b.y - cy, -b.vx, b.vy)
    IN  [b EXCEPT !.vx = r.vx, !.vy = r.vy]

Collide(prev_x, b, cx, cy) ==
    IF PaddleHit(prev_x, b, cx, cy) THEN Deflect(b, cy) ELSE b

\* a goal-line test with the two sides exchanged
Goal_Swapped(b) ==
    IF b.x - PADDLE_HALF_X <= -HalfCourt THEN "enemy"
    ELSE IF b.x + PADDLE_HALF_X >= HalfCourt THEN "player"
    ELSE "none"

\* the goal-line test on the position after integration
Goal(b) ==
    IF b.x - PADDLE_HALF_X <= -HalfCourt THEN "player"
    ELSE IF b.x + PADDLE_HALF_X >= HalfCourt THEN "enemy"
    ELSE "none"

\* a scoring step whose two branches both run when a goal line is reached
ScoreAfter_Both(sc, goal) ==
    [player |-> sc.player + (IF goal # "none" THEN 1 ELSE 0),
     enemy |-> sc.enemy + (IF goal # "none" THEN 1 ELSE 0)]

\* move_ball: score.player += 1 / score.enemy += 1
ScoreAfter(sc, goal) ==
    [player |-> sc.player + (IF goal = "player" THEN 1 ELSE 0),
     enemy |-> sc.enemy + (IF goal = "enemy" THEN 1 ELSE 0)]

\* fn move_ball
move_ball ==
    /\ Run("move_ball")
    /\ LET integ == Integrate(ball, dt)
           wall == WallBounce(integ)
           hitP == PaddleHit(ball.x, wall, PlayerX, player.y)
           hitE == PaddleHit(ball.x, wall, EnemyX, enemy.y)
           after == Collide(ball.x, Collide(ball.x, wall, PlayerX, player.y),
                            EnemyX, enemy.y)
           goal == Goal(wall)
       IN  /\ ball' = after
           /\ score' = ScoreAfter(score, goal)
           /\ nextState' = IF goal # "none" THEN "RoundOver" ELSE nextState
           /\ mb' = [ran |-> TRUE, pre |-> ball, integ |-> integ, wall |-> wall,
                     hit |-> (IF hitP THEN {"player"} ELSE {})
                                \cup (IF hitE THEN {"enemy"} ELSE {}),
                     off |-> (IF hitP THEN wall.y - player.y
                              ELSE IF hitE THEN wall.y - enemy.y ELSE 0),
                     goal |-> goal]
    /\ UNCHANGED <<timer, player, enemy, sinceEntry, roundsOver, frames>>

----------------------------------------------------------------------------

Next ==
    \/ \E d \in DtSet, k \in KeySets : NewFrame(d, k)
    \/ apply_state_transition
    \/ on_start_serving
    \/ on_round_started
    \/ on_round_over
    \/ player_input
    \/ move_paddle
    \/ pre_serve
    \/ enemy_ai
    \/ move_ball
    \/ round_over

Spec == Init /\ [][Next]_vars

\* the frames of a run in which every frame takes positive time
NextPositive ==
    \/ \E d \in PositiveDtSet, k \in KeySets : NewFrame(d, k)
    \/ apply_state_transition
    \/ on_start_serving
    \/ on_round_started
    \/ on_round_over
    \/ player_input
    \/ move_paddle
    \/ pre_serve
    \/ enemy_ai
    \/ move_ball
    \/ round_over

\* the first MaxFrames frames of a run
NextCounted ==
    \/ \E d \in CountedDtSet, k \in CountedKeySets : CountedFrame(d, k)
    \/ apply_state_transition
    \/ on_start_serving
    \/ on_round_started
    \/ on_round_over
    \/ player_input
    \/ move_paddle
    \/ pre_serve
    \/ enemy_ai
    \/ move_ball
    \/ round_over

SpecCounted == Init /\ [][NextCounted]_vars

\* App::run keeps running frames and every system of a frame runs to its
\* end: a step that can be taken is eventually taken
SpecFair == Init /\ [][NextPositive]_vars /\ WF_vars(NextPositive)

----------------------------------------------------------------------------
(* Steps of a frame, as the properties below name them *)

\* this step is the run of the system sys
Ran(sys) == sys \in pending /\ sys \notin pending'

\* this step enters the state s: OnEnter(s) runs
Enters(s) == gameState' = s /\ (gameState # s \/ pc = "enter")

\* the positions and the velocity the motion systems own
Motion == <<ball, player.y, enemy.y>>

----------------------------------------------------------------------------
(* The round state machine *)

\* C1: the round state starts as Serving and only ever changes along
\* Serving -> Started, Started -> RoundOver, RoundOver -> Serving; GameOver
\* is never the active state.
C1_RoundCycle ==
    /\ gameState = "Serving"
    /\ [](gameState # "GameOver")
    /\ [][gameState' # gameState =>
            <<gameState, gameState'>> \in {<<"Serving", "Started">>,
                                          <<"Started", "RoundOver">>,
                                          <<"RoundOver", "Serving">>}]_vars

\* C1 witness: the cycle has been closed, Serving is active again after a
\* round was played and its pause is over
C1_Witness ==
    gameState = "Serving" /\ score.player + score.enemy = 1 /\ timer.finished

\* C2: the run of move_ball that leaves the ball at or beyond the left goal
\* line adds exactly 1 to the player score and requests RoundOver, at or
\* beyond the right goal line it does the same for the enemy score; no run
\* adds to both scores; a run that reaches neither line changes neither
\* score nor the request, and nothing but move_ball changes the score.
C2_Scoring ==
    [][/\ Ran("move_ball") =>
            LET x == ball'.x
                left == x - 4 <= -256
                right == x + 4 >= 256
            IN  /\ left => /\ score'.player = score.player + 1
                           /\ score'.enemy = score.enemy
                           /\ nextState' = "RoundOver"
                /\ right => /\ score'.enemy = score.enemy + 1
                            /\ score'.player = score.player
                            /\ nextState' = "RoundOver"
                /\ ~(score'.player # score.player /\ score'.enemy # score.enemy)
                /\ (~left /\ ~right) => /\ score' = score
                                        /\ nextState' = nextState
                                        /\ gameState' = gameState
       /\ ~Ran("move_ball") => score' = score
      ]_vars

\* C2 witness: move_ball has run with the ball beyond the left goal line
C2_Witness ==
    /\ mb.ran /\ ball.x - 4 <= -256
    /\ score.player = 1 /\ score.enemy = 0 /\ nextState = "RoundOver"

\* C3: at the end of a Serving frame Started is requested exactly when the
\* player's direction is nonzero (W or S held); Serving is left only for
\* Started, only on such a request, and every such request is applied by
\* the next frame's transition.
C3_Serve ==
    /\ [](FrameDone /\ gameState = "Serving" =>
            /\ (nextState = "Started") = (player.dir # 0)
            /\ (player.dir # 0) = (keys # {})
            /\ nextState \in {"None", "Started"})
    /\ [][/\ (gameState = "Serving" /\ gameState' # "Serving") =>
                (gameState' = "Started" /\ nextState = "Started")
          /\ (pc = "transition" /\ gameState = "Serving" /\ nextState = "Started")
                => gameState' = "Started"
         ]_vars

\* C3 witness: a Serving frame ended with S held and Started requested
C3_Witness ==
    /\ FrameDone /\ gameState = "Serving"
    /\ keys = {"S"} /\ player.dir = -1 /\ nextState = "Started"

\* C4: while RoundOver is active, Serving is requested exactly when the
\* frame times of the round_over runs since the entry add up to the timer's
\* duration of NEXT_ROUND_INTERVAL = 1 second or more; RoundOver is left
\* only for Serving and only then.
C4_RoundOverPause ==
    /\ [](gameState = "RoundOver" =>
            /\ (nextState = "Serving") = (sinceEntry >= 1 * TicksPerSecond)
            /\ nextState \in {"None", "Serving"})
    /\ [][(gameState = "RoundOver" /\ gameState' # "RoundOver") =>
            (gameState' = "Serving" /\ sinceEntry >= 1 * TicksPerSecond)]_vars

\* C4 witness: the pause has run out after a round_over run that left it
\* short of its end
C4_Witness ==
    /\ FrameDone /\ gameState = "RoundOver" /\ nextState = "Serving"
    /\ sinceEntry >= TicksPerSecond /\ sinceEntry - dt < TicksPerSecond
    /\ sinceEntry - dt > 0

----------------------------------------------------------------------------
(* Motion *)

\* C5: both paddles' y lie in [-256 + 32, 256 - 32] = [-224, 224], in
\* every state and so after every frame.
C5_PaddleInCourt ==
    /\ -224 <= player.y /\ player.y <= 224
    /\ -224 <= enemy.y /\ enemy.y <= 224

\* C5 witness: the player paddle was stopped at the upper bound by the clamp
C5_Witness ==
    FrameDone /\ player.y = 224 /\ player.dir = 1 /\ dt > 0

\* C6: the ball's |y| is at most 256 - 4 = 252; when the integrated y left
\* that range, the wall step negated the vertical velocity, kept the
\* horizontal one and put y on the boundary it crossed.
C6_WallBounce ==
    /\ -252 <= ball.y /\ ball.y <= 252
    /\ (mb.ran /\ (mb.integ.y > 252 \/ mb.integ.y < -252)) =>
            /\ mb.wall.vy = -mb.integ.vy
            /\ mb.wall.vx = mb.integ.vx
            /\ mb.wall.x = mb.integ.x
            /\ mb.wall.y = (IF mb.integ.y > 252 THEN 252 ELSE -252)
            /\ ball.y = mb.wall.y
    /\ (mb.ran /\ mb.integ.y <= 252 /\ mb.integ.y >= -252) => mb.wall = mb.integ

\* C6 witness: move_ball integrated the ball beyond the upper wall
C6_Witness ==
    mb.ran /\ mb.integ.y > 252 /\ mb.integ.vy > 0 /\ ball.y = 252

\* C7: every entry into Serving, the first one and every re-serve, leaves
\* the ball at the centre with velocity (0, 0) and both paddles at y = 0
\* with direction 0.
C7_ServeReset ==
    [][Enters("Serving") =>
        /\ ball' = [x |-> 0, y |-> 0, vx |-> 0, vy |-> 0]
        /\ player' = [dir |-> 0, y |-> 0]
        /\ enemy' = [dir |-> 0, y |-> 0]]_vars

\* C7 witness: Serving was entered again after a round that left the ball
\* at a goal line; the frame's systems have not run yet
C7_Witness ==
    /\ gameState = "Serving" /\ score.player + score.enemy = 1
    /\ pc = "update" /\ pending = RunSet("Serving")
    /\ ball.x = 0 /\ player.y = 0

\* C8 as stated: on entering Started the ball's velocity is (256, 0) in
\* size, directed at the enemy's side of the court (EnemyX = +252).
C8_LaunchTowardEnemy ==
    [][Enters("Started") =>
        /\ Abs(ball'.vx) = 256 /\ ball'.vy = 0
        /\ Sgn(ball'.vx) = Sgn(EnemyX)]_vars

\* C8 amended: on entering Started the ball's velocity is (-256, 0): the
\* fixed speed, directed at the player's side (PlayerX = -252, EnemyX = +252).
C8_LaunchTowardPlayer ==
    /\ PlayerX = -252 /\ EnemyX = 252
    /\ [][Enters("Started") =>
            /\ ball'.vx = -256 /\ ball'.vy = 0
            /\ Sgn(ball'.vx) = Sgn(PlayerX)
            /\ <<ball'.x, ball'.y>> = <<ball.x, ball.y>>]_vars

\* C8 witness: Started has just been entered
C8_Witness ==
    /\ gameState = "Started" /\ pc = "update" /\ pending = RunSet("Started")
    /\ ball = [x |-> 0, y |-> 0, vx |-> -256, vy |-> 0]

\* C9 as stated: a run of enemy_ai sets the enemy paddle's direction to +1
\* if the ball is above the paddle, -1 if below and 0 if they are level.
C9_AiSign ==
    [][Ran("enemy_ai") =>
        /\ enemy'.dir = Sgn(ball.y - enemy.y)
        /\ enemy'.dir \in {-1, 0, 1}]_vars

\* C10 as stated: no step of a frame with dt = 0 changes the ball's
\* position or velocity or a paddle's position.
C10_ZeroFrame ==
    [][(dt = 0 /\ pc \in {"enter", "transition", "update"}) =>
            Motion' = Motion]_vars

\* C10 amended: in a frame with dt = 0 the systems of Update change neither
\* the ball's position or velocity nor a paddle's position, and neither
\* does a StateTransition that enters no state; only the entry actions of
\* Serving and Started do.
C10_ZeroFrameNoEntry ==
    [][(dt = 0 /\ pc \in {"enter", "transition", "update"}
            /\ ~Enters("Serving") /\ ~Enters("Started")) =>
            Motion' = Motion]_vars

\* C10 witness: a frame with dt = 0 has ended in Started, with the ball in
\* flight on a wall and both paddles told to move
C10_Witness ==
    /\ FrameDone /\ dt = 0 /\ gameState = "Started" /\ mb.ran
    /\ ball.vx # 0 /\ Abs(ball.y) = 252
    /\ player.dir # 0 /\ enemy.dir # 0

----------------------------------------------------------------------------
(* Paddle collisions *)

\* C12 as stated: in every run of move_ball that registers a collision the
\* normalized offset (ball y - paddle centre y) / 32 lies in [-1, 1], so the
\* rotation is at most COLLISION_MAX_ANGLE = 45 degrees.
C12_OffsetWithinPaddle ==
    (mb.ran /\ mb.hit # {}) =>
        (-PADDLE_HALF_Y <= mb.off /\ mb.off <= PADDLE_HALF_Y)

\* C13: a collision with the ball level with the paddle centre returns the
\* incoming velocity with x negated and y unchanged; the ball served from
\* the centre at (-256, 0) that meets the player paddle centred at y = 0
\* leaves with (+256, 0).
C13_CentreHit ==
    /\ (mb.ran /\ mb.hit # {} /\ mb.off = 0) =>
            /\ ball.vx = -mb.pre.vx
            /\ ball.vy = mb.pre.vy
            /\ mb.wall.vx = mb.pre.vx /\ mb.wall.vy = mb.pre.vy
    /\ (mb.ran /\ mb.hit = {"player"} /\ mb.off = 0
            /\ mb.pre = [x |-> 0, y |-> 0, vx |-> -256, vy |-> 0]) =>
            (ball.vx = 256 /\ ball.vy = 0)

\* C13 witness: the served ball met the centre of the player paddle
C13_Witness ==
    /\ mb.ran /\ mb.hit = {"player"} /\ mb.off = 0 /\ mb.goal = "none"
    /\ mb.pre = [x |-> 0, y |-> 0, vx |-> -256, vy |-> 0]
    /\ ball = [x |-> -248, y |-> 0, vx |-> 256, vy |-> 0]

\* C11 as stated: a run of move_ball that registers a paddle collision
\* leaves the ball's horizontal velocity with the sign opposite to the one
\* it had before the run (velocities within VelTolerance of zero are not
\* counted against the claim).
C11_HitTurnsBall ==
    (mb.ran /\ mb.hit # {}) =>
        ~(ball.vx * mb.pre.vx > 0 /\ Abs(ball.vx) >= VelTolerance)

\* C18 as stated: a run of move_ball that registers a paddle collision
\* adds to no score and requests no transition to RoundOver.
C18_NoGoalOnHit ==
    [][(Ran("move_ball") /\ mb'.hit # {}) =>
            (score' = score /\ nextState' # "RoundOver")]_vars

----------------------------------------------------------------------------
(* The order of the systems in a frame *)

\* C14 as stated: in every frame the systems run in the order player_input,
\* enemy_ai, move_paddle, move_ball, round_over: when move_paddle runs,
\* player_input and enemy_ai have run in this frame, and when move_ball
\* runs, move_paddle has.
C14_SystemOrder ==
    [][/\ Ran("enemy_ai") => "player_input" \notin pending
       /\ Ran("move_paddle") => pending \cap {"player_input", "enemy_ai"} = {}
       /\ Ran("move_ball") =>
            pending \cap {"player_input", "enemy_ai", "move_paddle"} = {}
       /\ Ran("round_over") => pending \cap {"player_input", "move_paddle"} = {}
      ]_vars

----------------------------------------------------------------------------
(* What the frames outside Started leave alone *)

\* C15 as stated: in a frame whose round state is Serving or RoundOver the
\* enemy paddle's direction is 0 at the end and no step of the frame
\* changes the enemy paddle's position.
C15_EnemyStill ==
    /\ []((FrameDone /\ gameState \in {"Serving", "RoundOver"}) => enemy.dir = 0)
    /\ [][gameState' \in {"Serving", "RoundOver"} => enemy'.y = enemy.y]_vars

\* C15 amended: in a frame whose round state is Serving or RoundOver the
\* enemy paddle's direction is 0 at the end and the systems of Update do
\* not change the enemy paddle's position; the entry into Serving puts it
\* at y = 0, and nothing else in such a frame moves it.
C15_EnemyStillButReset ==
    /\ []((FrameDone /\ gameState \in {"Serving", "RoundOver"}) => enemy.dir = 0)
    /\ [][(gameState' \in {"Serving", "RoundOver"} /\ ~Enters("Serving"))
            => enemy'.y = enemy.y]_vars
    /\ [][Enters("Serving") => enemy'.y = 0]_vars

\* C15 witness: a RoundOver frame of positive length ended with the enemy
\* paddle away from the ball's height and from the centre, the player moving
C15_Witness ==
    /\ FrameDone /\ gameState = "RoundOver" /\ dt > 0 /\ sinceEntry > 0
    /\ enemy.y # 0 /\ enemy.y # ball.y /\ player.dir # 0

\* C16: move_ball runs in Started frames only; the ball's position and
\* velocity change only in a run of move_ball, in the entry into Serving
\* and in the entry into Started; throughout Serving the ball is at the
\* centre with zero velocity.
C16_BallOnlyInStarted ==
    /\ [](gameState = "Serving" => ball = [x |-> 0, y |-> 0, vx |-> 0, vy |-> 0])
    /\ [][/\ Ran("move_ball") => gameState = "Started"
          /\ ball' # ball =>
                (Ran("move_ball") \/ Enters("Serving") \/ Enters("Started"))
          /\ (gameState' = gameState /\ gameState # "Started") => ball' = ball
         ]_vars

\* C16 witness: a RoundOver frame of positive length ended with the ball
\* where the round left it, still carrying its velocity
C16_Witness ==
    /\ FrameDone /\ gameState = "RoundOver" /\ dt > 0 /\ sinceEntry > 0
    /\ ball.vx # 0 /\ Abs(ball.x) >= 252

----------------------------------------------------------------------------
(* The score *)

\* C17 as stated: neither score ever decreases, and at the end of every
\* frame player score + enemy score equals the number of times RoundOver
\* has been entered.
C17_ScoreIsRounds ==
    /\ [](FrameDone => score.player + score.enemy = roundsOver)
    /\ [][score'.player >= score.player /\ score'.enemy >= score.enemy]_vars

\* C17 amended: neither score ever decreases, and player score + enemy
\* score equals the number of times RoundOver has been entered, plus one
\* from the scoring run of move_ball until the RoundOver it requested is
\* entered by the next frame's transition, which happens before any
\* system of that frame runs.
C17_ScoreIsRoundsOrPending ==
    /\ [](score.player + score.enemy =
            roundsOver + (IF nextState = "RoundOver" THEN 1 ELSE 0))
    /\ []((nextState = "RoundOver") => gameState = "Started")
    /\ [][score'.player >= score.player /\ score'.enemy >= score.enemy]_vars

\* C17 witness: the round is over, entered once, with its one point awarded
C17_Witness ==
    /\ gameState = "RoundOver" /\ roundsOver = 1 /\ FrameDone
    /\ score.player + score.enemy = 1 /\ nextState = "Serving"

----------------------------------------------------------------------------
(* The end of a round *)

\* C19 as stated: once the state is Started, and frames of positive length
\* keep occurring, the state eventually becomes RoundOver, whatever the
\* player does and however the ball is hit.
C19_RoundTerminates ==
    (gameState = "Started") ~> (gameState = "RoundOver")

====
